---- MODULE Spec2Model ----
(***************************************************************************)
(* Model of wayland-client/src/rust_imp/mod.rs: the object registry facade *)
(* (ProxyMap), the thread-confinement guard (ThreadGuard) and the dispatch *)
(* mechanism (ImplDispatcher, make_dispatcher, default_dispatcher).        *)
(*                                                                         *)
(* Two threads call into the module.  A call to ImplDispatcher::dispatch   *)
(* is split at the points where another thread can observe its effects:    *)
(* the atomic store to `alive`, taking the registry lock, the bookkeeping  *)
(* under the lock, dropping the lock, and the callback.                    *)
(***************************************************************************)
EXTENDS Integers, FiniteSets, Sequences, TLC

Min(S) == CHOOSE x \in S : \A y \in S : x <= y

\* ---------------------------------------------------------------- bounds
MaxId == 2
MaxVersion == 2

Ids == 1..MaxId
\* the id of the object the registry holds at the start (the lowest id a
\* client allocates); the other ids have no entry
ObjectId == Min(Ids)
Versions == 1..MaxVersion
Threads == {"tA", "tB"}
NoThread == "none"

\* interface names: the one every object of the model has, another typed
\* interface a caller may ask for, and the untyped one of line 42
ObjInterface == "wl_surface"
OtherInterface == "wl_callback"
Anonymous == "<anonymous>"
Requested == {Anonymous, ObjInterface, OtherInterface}

\* the payload of the guard (the Filter handed to make_dispatcher) and the
\* thread make_dispatcher ran on
TheFilter == "filter"
OriginThread == "tA"

\* ------------------------------------------------ collaborators (not in src)
\* proxy.object.events / I::Event metadata: one descriptor per opcode, giving
\* since() and is_destructor() of the event the opcode decodes to.
EventsTable ==
  << [name |-> "enter", since |-> 1, destructor |-> FALSE],
     [name |-> "frame", since |-> 2, destructor |-> FALSE],
     [name |-> "done",  since |-> 1, destructor |-> TRUE],
     [name |-> "gone",  since |-> 2, destructor |-> TRUE] >>

\* opcodes a peer can put on the wire: those of the table and one beyond it
Opcodes == 0..Len(EventsTable)
\* the opcode of the destructor event every version has
DestructorOpcode ==
  CHOOSE o \in Opcodes :
    o + 1 \in DOMAIN EventsTable /\ EventsTable[o + 1].name = "done"
\* every opcode with well-formed arguments, and a destructor opcode with
\* arguments that do not decode (how they are wrong does not matter to dispatch)
Messages ==
  {m \in [opcode : Opcodes, wellformed : BOOLEAN] :
     ~m.wellformed => m.opcode = DestructorOpcode}
NoMsg == [opcode |-> -1, wellformed |-> FALSE]
NoEvent == [name |-> "", since |-> 0, destructor |-> FALSE]

\* I::Event::from_raw(msg, map): Err(()) for an opcode outside the interface's
\* events or for arguments that do not match the event's signature.
from_raw(msg) ==
  IF msg.opcode + 1 \in DOMAIN EventsTable /\ msg.wellformed
    THEN [ok |-> TRUE, ev |-> EventsTable[msg.opcode + 1]]
    ELSE [ok |-> FALSE, ev |-> NoEvent]

\* registry entries (ObjectMap<ObjectMeta>)
NoEntry == [interface |-> "", version |-> 0,
            client_destroyed |-> FALSE, server_destroyed |-> FALSE]
Entries == [interface : {ObjInterface}, version : Versions,
            client_destroyed : BOOLEAN, server_destroyed : BOOLEAN]

\* ObjectMap::find(id)
find(m, id) == m[id]

\* ObjectMap::remove(id)
remove(m, id) == [m EXCEPT ![id] = NoEntry]

\* handles (ProxyInner): id plus a clone of the object
NoProxy == [id |-> 0, interface |-> "", version |-> 0]

\* ProxyInner::from_id(id, map, connection): a handle when the entry exists
from_id(m, id) ==
  IF find(m, id) = NoEntry
    THEN [some |-> FALSE, proxy |-> NoProxy]
    ELSE [some |-> TRUE,
          proxy |-> [id |-> id, interface |-> find(m, id).interface,
                     version |-> find(m, id).version]]

\* Object::is_interface::<I>()
is_interface(obj, I) == obj.interface = I

VARIABLES
  map,        \* the registry: id -> entry, NoEntry when the id has none
  alive,      \* meta.alive, the atomic flag shared by every clone of an object
  handles,    \* the ProxyInner handles the event pump holds (never change)
  mapLock,    \* the thread holding the registry Mutex, or NoThread
  dispLock,   \* the thread holding the Mutex around the ImplDispatcher
  guard,      \* the ThreadGuard built by make_dispatcher
  env,        \* the process environment: whether WAYLAND_DEBUG is set
  th,         \* per thread: position and locals of the call in progress
  sinkLog,    \* the threads on which the registered sink has been invoked
  hist        \* per id: which destroy signals acted on the entry, removals

vars == <<map, alive, handles, mapLock, dispLock, guard, env, th, sinkLog, hist>>

\* ---------------------------------------------------------- ThreadGuard
NoVal == "noval"

\* the guard bound to a fixed thread instead of the calling one
ThreadGuard_new_FixedThread(val, t) == [val |-> val, thread |-> "tB"]

\* ThreadGuard::new(val): captures the calling thread
ThreadGuard_new(val, t) == [val |-> val, thread |-> t]

\* get without the thread check
ThreadGuard_get_Unchecked(g, t) == [ok |-> TRUE, val |-> g.val]

\* ThreadGuard::get(&self): the assert!, then &self.val
ThreadGuard_get(g, t) ==
  IF g.thread = t
    THEN [ok |-> TRUE, val |-> g.val]
    ELSE [ok |-> FALSE, val |-> NoVal]

NoRead == [ok |-> FALSE, val |-> "unread"]

\* line 173: make_dispatcher wraps the filter in a guard on the calling thread
make_dispatcher(filter, t) == ThreadGuard_new(filter, t)

\* ---------------------------------------------------------- thread locals
NoRet == [kind |-> "none", msg |-> NoMsg, proxy |-> NoProxy]
Idle ==
  [pc |-> "idle", op |-> "none", proxy |-> NoProxy, msg |-> NoMsg,
   ev |-> NoEvent, want |-> "", debug |-> FALSE, traced |-> FALSE, cb |-> 0,
   cbArg |-> [ev |-> NoEvent, proxy |-> NoProxy], cbAlive |-> TRUE,
   gread |-> NoRead, sunk |-> 0, booked |-> FALSE, found |-> FALSE,
   removed |-> FALSE,
   nested |-> "none",
   ret |-> NoRet]

\* history of an id: whether each flag was ever written on its entry (c, s),
\* whether the client's own destroy signal (cli) and a destructor event (evt)
\* acted on its entry, and the number of calls of remove(id)
NoHist == [c |-> FALSE, s |-> FALSE, cli |-> FALSE, evt |-> FALSE,
           removals |-> 0]

Init ==
  /\ \E v \in Versions :
       map = [i \in Ids |->
                IF i = ObjectId
                  THEN [interface |-> ObjInterface, version |-> v,
                        client_destroyed |-> FALSE, server_destroyed |-> FALSE]
                  ELSE NoEntry]
  /\ alive = [i \in Ids |-> TRUE]
  /\ handles = {from_id(map, i).proxy : i \in {j \in Ids : map[j] # NoEntry}}
  /\ mapLock = NoThread
  /\ dispLock = NoThread
  /\ guard = make_dispatcher(TheFilter, OriginThread)
  /\ env \in [WAYLAND_DEBUG : BOOLEAN]
  /\ th = [t \in Threads |-> Idle]
  /\ sinkLog = {}
  /\ hist = [i \in Ids |-> NoHist]

Set(t, r) == th' = [th EXCEPT ![t] = r]

At(t, where) == th[t].pc = where

\* ---------------------------------------------- ImplDispatcher::dispatch
\* line 133: the version gate
version_gate_Inclusive(ev, proxy) == ev.since >= proxy.version

\* the gate applied to non-destructor events only
version_gate_NotForDestructors(ev, proxy) ==
  ~ev.destructor /\ ev.since > proxy.version

version_gate(ev, proxy) == ev.since > proxy.version

\* lines 123-128: with WAYLAND_DEBUG set the trace line indexes the object's
\* events table by the raw opcode, before decoding; an opcode outside the
\* table panics (index out of bounds)
trace_panics(msg, debug) == debug /\ ~(msg.opcode + 1 \in DOMAIN EventsTable)

\* line 144: which way a decoded, gated event goes
after_gate_NoBookkeeping(ev) == "callback"

\* a destructor going to the bookkeeping without the store of line 145
after_gate_StoreSkipped(ev) == IF ev.destructor THEN "d_lock" ELSE "callback"

\* every event sent through the destructor block
after_gate_AlwaysBookkeeping(ev) == "d_store"

after_gate(ev) == IF ev.destructor THEN "d_store" ELSE "callback"

\* the early return of line 131 left out: a message whose arguments do not
\* decode is taken for the event of its opcode
dispatch_prefix_DecodeErrorIgnored(msg, proxy, debug) ==
  LET known == msg.opcode + 1 \in DOMAIN EventsTable
      ev == IF known THEN EventsTable[msg.opcode + 1] ELSE NoEvent
  IN
  IF trace_panics(msg, debug)
    THEN [pc |-> "panicked", traced |-> FALSE, ev |-> NoEvent, kind |-> "none"]
  ELSE IF ~known
    THEN [pc |-> "ret", traced |-> debug, ev |-> NoEvent, kind |-> "BadMsg"]
  ELSE IF version_gate(ev, proxy)
    THEN [pc |-> "ret", traced |-> debug, ev |-> ev, kind |-> "BadMsg"]
  ELSE [pc |-> after_gate(ev), traced |-> debug, ev |-> ev, kind |-> "none"]

\* lines 122-144: trace, decode, version gate.  The outcome is where the call
\* goes next: a panic, an early return of BadMsg, or on to delivery.
dispatch_prefix(msg, proxy, debug) ==
  LET dec == from_raw(msg) IN
  IF trace_panics(msg, debug)
    THEN [pc |-> "panicked", traced |-> FALSE, ev |-> NoEvent, kind |-> "none"]
  ELSE IF ~dec.ok
    THEN [pc |-> "ret", traced |-> debug, ev |-> NoEvent, kind |-> "BadMsg"]
  ELSE IF version_gate(dec.ev, proxy)
    THEN [pc |-> "ret", traced |-> debug, ev |-> dec.ev, kind |-> "BadMsg"]
  ELSE [pc |-> after_gate(dec.ev), traced |-> debug, ev |-> dec.ev,
        kind |-> "none"]

\* dispatch is entered by the event pump with a handle it holds
DispatchBegin(t) ==
  /\ At(t, "idle")
  /\ dispLock = NoThread
  /\ dispLock' = t
  /\ \E proxy \in handles, msg \in Messages :
       LET debug == env.WAYLAND_DEBUG
           o == dispatch_prefix(msg, proxy, debug)
       IN
       Set(t, [Idle EXCEPT !.pc = o.pc, !.op = "dispatch", !.proxy = proxy,
                           !.msg = msg, !.ev = o.ev, !.debug = debug,
                           !.traced = o.traced,
                           !.ret = [NoRet EXCEPT !.kind = o.kind]])
  /\ UNCHANGED <<map, alive, handles, mapLock, guard, env, sinkLog, hist>>

\* the store left out
alive_store_Skipped(a, id) == a

\* line 145: proxy.object.meta.alive.store(false, Release)
alive_store(a, id) == [a EXCEPT ![id] = FALSE]

StoreAlive(t) ==
  /\ At(t, "d_store")
  /\ alive' = alive_store(alive, th[t].proxy.id)
  /\ Set(t, [th[t] EXCEPT !.pc = "d_lock"])
  /\ UNCHANGED <<map, handles, mapLock, dispLock, guard, env, sinkLog, hist>>

\* the flags written and read the other way round
destructor_with_Swapped(m, id) ==
  IF find(m, id) = NoEntry
    THEN [map |-> m, server_destroyed |-> FALSE]
    ELSE [map |-> [m EXCEPT ![id].server_destroyed = TRUE],
          server_destroyed |-> find(m, id).client_destroyed]

\* a missing entry read as "the other side is done" (unwrap_or(true))
destructor_with_DefaultTrue(m, id) ==
  IF find(m, id) = NoEntry
    THEN [map |-> m, server_destroyed |-> TRUE]
    ELSE [map |-> [m EXCEPT ![id].client_destroyed = TRUE],
          server_destroyed |-> find(m, id).server_destroyed]

\* lines 149-154: map.with(proxy.id, |obj| { obj.meta.client_destroyed = true;
\* obj.meta.server_destroyed }).unwrap_or(false)
destructor_with(m, id) ==
  IF find(m, id) = NoEntry
    THEN [map |-> m, server_destroyed |-> FALSE]
    ELSE [map |-> [m EXCEPT ![id].client_destroyed = TRUE],
          server_destroyed |-> find(m, id).server_destroyed]

\* removal without looking at the flag read
destructor_removes_Always(server_destroyed) == TRUE

\* the removal of lines 155-157 left out
destructor_removes_Never(server_destroyed) == FALSE

\* line 155: whether map.remove(proxy.id) of line 156 is called
destructor_removes(server_destroyed) == server_destroyed

\* line 148: proxy.map.lock().unwrap(), and lines 149-157 run while the lock
\* is held (no other thread can see the registry in between)
Bookkeeping(t) ==
  /\ At(t, "d_lock")
  /\ mapLock = NoThread
  /\ mapLock' = t
  /\ LET id == th[t].proxy.id
         w == destructor_with(map, id)
         rm == destructor_removes(w.server_destroyed)
     IN /\ map' = IF rm THEN remove(w.map, id) ELSE w.map
        /\ hist' = [hist EXCEPT
                      ![id].c = @ \/ w.map[id].client_destroyed,
                      ![id].s = @ \/ w.map[id].server_destroyed,
                      ![id].evt = @ \/ map[id] # NoEntry,
                      ![id].removals = IF rm THEN @ + 1 ELSE @]
        /\ Set(t, [th[t] EXCEPT !.pc = "d_unlock", !.booked = TRUE,
                                !.found = map[id] # NoEntry,
                                !.removed = rm])
  /\ UNCHANGED <<alive, handles, dispLock, guard, env, sinkLog>>

\* the lock kept across the callback
unlock_LockKept(holder) == holder

\* line 158: the guard of line 148 goes out of scope
unlock(holder) == NoThread

UnlockMap(t) ==
  /\ At(t, "d_unlock")
  /\ mapLock' = unlock(mapLock)
  /\ Set(t, [th[t] EXCEPT !.pc = "callback"])
  /\ UNCHANGED <<map, alive, handles, dispLock, guard, env, sinkLog, hist>>

\* ------------------------------------------------------------ ProxyMap
\* lines 40-45: from_id under the registry lock, then the debug assertion on
\* the interface of the object found
ProxyMap_get_Inserting(m, id, I, dbg) ==
  [kind |-> "Some", msg |-> NoMsg,
   proxy |-> [id |-> id, interface |-> I, version |-> 1]]

ProxyMap_get(m, id, I, dbg) ==
  LET r == from_id(m, id) IN
  IF ~r.some THEN [kind |-> "None", msg |-> NoMsg, proxy |-> NoProxy]
  ELSE IF dbg /\ ~(I = Anonymous \/ is_interface(r.proxy, I))
    THEN [kind |-> "panic", msg |-> NoMsg, proxy |-> NoProxy]
  ELSE [kind |-> "Some", msg |-> NoMsg, proxy |-> r.proxy]

\* lines 49-55: find(id).map(|obj| obj.is_interface::<I>()).unwrap_or(true)
get_new_assert(m, id, I) ==
  IF find(m, id) = NoEntry THEN TRUE ELSE is_interface(find(m, id), I)

\* line 56: from_id(...).map(Main::wrap)
get_new_from(m, id) ==
  LET r == from_id(m, id) IN
  IF r.some THEN [kind |-> "SomeNew", msg |-> NoMsg, proxy |-> r.proxy]
            ELSE [kind |-> "None", msg |-> NoMsg, proxy |-> NoProxy]

\* a registry read leaves the registry as it is
lookup_effect(m, id) == m

\* ProxyMap::get called by a thread (generated decode code or the application)
Get(t) ==
  /\ At(t, "idle")
  /\ mapLock = NoThread
  /\ \E id \in Ids, I \in Requested, dbg \in BOOLEAN :
       LET r == ProxyMap_get(map, id, I, dbg) IN
       /\ Set(t, [Idle EXCEPT !.pc = IF r.kind = "panic" THEN "panicked" ELSE "ret",
                              !.op = "get", !.want = I,
                              !.proxy = [NoProxy EXCEPT !.id = id], !.ret = r])
       /\ map' = lookup_effect(map, id)
  /\ UNCHANGED <<alive, handles, mapLock, dispLock, guard, env, sinkLog, hist>>

\* ProxyMap::get_new, first statement: the debug assertion takes the lock on
\* its own (dbg: whether debug_assert! is compiled in)
GetNewAssert(t) ==
  /\ At(t, "idle")
  /\ mapLock = NoThread
  /\ \E id \in Ids, I \in Requested, dbg \in BOOLEAN :
       LET ok == dbg => get_new_assert(map, id, I) IN
       Set(t, [Idle EXCEPT !.pc = IF ok THEN "gn_from" ELSE "panicked",
                           !.op = "get_new", !.want = I,
                           !.proxy = [NoProxy EXCEPT !.id = id]])
  /\ UNCHANGED <<map, alive, handles, mapLock, dispLock, guard, env, sinkLog, hist>>

\* ProxyMap::get_new, second statement
GetNewFrom(t) ==
  /\ At(t, "gn_from")
  /\ mapLock = NoThread
  /\ Set(t, [th[t] EXCEPT !.pc = "ret",
                          !.ret = get_new_from(map, th[t].proxy.id)])
  /\ map' = lookup_effect(map, th[t].proxy.id)
  /\ UNCHANGED <<alive, handles, mapLock, dispLock, guard, env, sinkLog, hist>>

\* ------------------------------------------------- callback (make_dispatcher)
\* lines 159/161 with the closure of line 176: the implementation is invoked
\* with the event and the handle; it reads the guard and sends to the sink
Callback(t) ==
  /\ At(t, "callback")
  /\ LET g == ThreadGuard_get(guard, t) IN
     /\ Set(t, [th[t] EXCEPT
                  !.pc = IF g.ok THEN "in_sink" ELSE "panicked",
                  !.cb = @ + 1,
                  !.cbArg = [ev |-> th[t].ev, proxy |-> th[t].proxy],
                  !.cbAlive = alive[th[t].proxy.id],
                  !.gread = g,
                  !.sunk = IF g.ok THEN @ + 1 ELSE @])
     /\ sinkLog' = IF g.ok THEN sinkLog \cup {t} ELSE sinkLog
  /\ UNCHANGED <<map, alive, handles, mapLock, dispLock, guard, env, hist>>

\* the sink is user code: it may resolve a handle through the registry
SinkGet(t) ==
  /\ At(t, "in_sink")
  /\ mapLock = NoThread
  /\ \E id \in Ids :
       LET r == ProxyMap_get(map, id, Anonymous, FALSE) IN
       /\ Set(t, [th[t] EXCEPT !.pc = "sink_done", !.nested = r.kind])
       /\ map' = lookup_effect(map, id)
  /\ UNCHANGED <<alive, handles, mapLock, dispLock, guard, env, sinkLog, hist>>

\* line 163: the callback has returned; Dispatched::Yes
SinkReturn(t) ==
  /\ At(t, "in_sink") \/ At(t, "sink_done")
  /\ Set(t, [th[t] EXCEPT !.pc = "ret", !.ret = [NoRet EXCEPT !.kind = "Yes"]])
  /\ UNCHANGED <<map, alive, handles, mapLock, dispLock, guard, env, sinkLog, hist>>

\* the caller takes the result and the thread is free for its next call; a
\* thread that panicked unwinds and is gone
Return(t) ==
  /\ At(t, "ret") \/ At(t, "panicked")
  /\ Set(t, IF At(t, "ret") THEN Idle ELSE [Idle EXCEPT !.pc = "dead"])
  /\ dispLock' = IF dispLock = t THEN NoThread ELSE dispLock
  /\ UNCHANGED <<map, alive, handles, mapLock, guard, env, sinkLog, hist>>

\* ------------------------------------------------------ default_dispatcher
DefaultDisp_dispatch_Consuming(msg, proxy) ==
  [kind |-> "Yes", msg |-> NoMsg, proxy |-> NoProxy]

\* line 184: Dispatched::NoDispatch(msg, proxy)
DefaultDisp_dispatch(msg, proxy) ==
  [kind |-> "NoDispatch", msg |-> msg, proxy |-> proxy]

DefaultDispatch(t) ==
  /\ At(t, "idle")
  /\ \E proxy \in handles, msg \in Messages :
       Set(t, [Idle EXCEPT !.pc = "ret", !.op = "default", !.proxy = proxy,
                           !.msg = msg,
                           !.ret = DefaultDisp_dispatch(msg, proxy)])
  /\ UNCHANGED <<map, alive, handles, mapLock, dispLock, guard, env, sinkLog, hist>>

\* ------------------------------------------- the other destroy signals
\* The client destroying the object itself (a destructor request on an object
\* it has not destroyed yet): under the registry lock, set client_destroyed
\* and remove the entry when the server flag is already set.
ClientDestroy(id) ==
  /\ mapLock = NoThread
  /\ map[id] # NoEntry
  /\ ~map[id].client_destroyed
  /\ alive' = [alive EXCEPT ![id] = FALSE]
  /\ map' = IF map[id].server_destroyed THEN remove(map, id)
            ELSE [map EXCEPT ![id].client_destroyed = TRUE]
  /\ hist' = [hist EXCEPT ![id].c = TRUE, ![id].cli = TRUE,
                          ![id].removals =
                             IF map[id].server_destroyed THEN @ + 1 ELSE @]
  /\ UNCHANGED <<handles, mapLock, dispLock, guard, env, th, sinkLog>>

\* The server announcing that it dropped the object: under the registry lock,
\* set server_destroyed and remove the entry when the client flag is set.
ServerDestroy(id) ==
  /\ mapLock = NoThread
  /\ map[id] # NoEntry
  /\ ~map[id].server_destroyed
  /\ alive' = [alive EXCEPT ![id] = FALSE]
  /\ map' = IF map[id].client_destroyed THEN remove(map, id)
            ELSE [map EXCEPT ![id].server_destroyed = TRUE]
  /\ hist' = [hist EXCEPT ![id].s = TRUE,
                          ![id].removals =
                             IF map[id].client_destroyed THEN @ + 1 ELSE @]
  /\ UNCHANGED <<handles, mapLock, dispLock, guard, env, th, sinkLog>>

Next ==
  \/ \E t \in Threads : DispatchBegin(t)
  \/ \E t \in Threads : StoreAlive(t)
  \/ \E t \in Threads : Bookkeeping(t)
  \/ \E t \in Threads : UnlockMap(t)
  \/ \E t \in Threads : Callback(t)
  \/ \E t \in Threads : SinkGet(t)
  \/ \E t \in Threads : SinkReturn(t)
  \/ \E t \in Threads : Return(t)
  \/ \E t \in Threads : DefaultDispatch(t)
  \/ \E t \in Threads : Get(t)
  \/ \E t \in Threads : GetNewAssert(t)
  \/ \E t \in Threads : GetNewFrom(t)
  \/ \E id \in Ids : ClientDestroy(id)
  \/ \E id \in Ids : ServerDestroy(id)

Spec == Init /\ [][Next]_vars

\* ======================================================== properties
Present(id) == map[id] # NoEntry

\* a call of ImplDispatcher::dispatch by thread t whose message decoded
Decoded(t) == th[t].op = "dispatch" /\ th[t].ev # NoEvent

\* ... and passed the version gate of line 133
Gated(t) == Decoded(t) /\ th[t].ev.since <= th[t].proxy.version

\* what a lookup of id gives in the current state
Lookup(id) == ProxyMap_get(map, id, Anonymous, FALSE)

\* the step in which thread t does the bookkeeping of lines 148-157
BookStep(t) == th[t].pc = "d_lock" /\ th'[t].pc = "d_unlock"

\* C1 as stated: a destructor event handled by dispatch is the server's signal,
\* so once the client's own destroy signal and a destructor event have both
\* acted on an entry, in either order, it has been removed.
C1_AsStated ==
  \A id \in Ids : (hist[id].cli /\ hist[id].evt) => ~Present(id)

\* C1 (amended): whatever the order of the signals that set client_destroyed
\* (the client's own destroy, or a destructor event handled by dispatch) and
\* of the signal that sets server_destroyed, remove is called on the entry
\* exactly once, exactly when both flags have been set; an entry with one flag
\* set is still in the registry.
C1_Reconciliation ==
  \A id \in Ids :
    /\ hist[id].removals <= 1
    /\ hist[id].removals = 1 <=> (hist[id].c /\ hist[id].s)
    /\ id = ObjectId => (Present(id) <=> hist[id].removals = 0)
    /\ Present(id) => /\ map[id].client_destroyed = hist[id].c
                      /\ map[id].server_destroyed = hist[id].s

\* both orders end in one removal: here the destructor event came second
C1_Witness ==
  \E t \in Threads :
    /\ th[t].booked /\ th[t].found /\ th[t].removed
    /\ hist[ObjectId].removals = 1 /\ ~Present(ObjectId)

\* C2 as stated: the bookkeeping of a destructor event sets server_destroyed,
\* leaves client_destroyed alone and removes the entry when client_destroyed
\* was set.
C2_AsStated ==
  [][\A t \in Threads :
       LET id == th[t].proxy.id IN
       (BookStep(t) /\ Present(id)) =>
         /\ th'[t].removed = map[id].client_destroyed
         /\ Present(id)' => /\ map'[id].server_destroyed
                            /\ map'[id].client_destroyed = map[id].client_destroyed
    ]_vars

\* C2 (amended): the bookkeeping of a destructor event sets client_destroyed,
\* leaves server_destroyed as it was, and removes the entry exactly when
\* server_destroyed was already set.
C2_Bookkeeping ==
  [][\A t \in Threads :
       LET id == th[t].proxy.id IN
       (BookStep(t) /\ Present(id)) =>
         /\ th'[t].removed = map[id].server_destroyed
         /\ Present(id)' = ~map[id].server_destroyed
         /\ Present(id)' => /\ map'[id].client_destroyed
                            /\ map'[id].server_destroyed = map[id].server_destroyed
                            /\ map'[id].version = map[id].version
    ]_vars

\* the bookkeeping has run on an entry the server had not dropped yet
C2_Witness ==
  \E t \in Threads :
    /\ th[t].pc = "d_unlock" /\ th[t].found /\ ~th[t].removed
    /\ map[th[t].proxy.id].client_destroyed
    /\ ~map[th[t].proxy.id].server_destroyed

\* C3: once a destructor event has acted on an entry, and as long as the other
\* flag (server_destroyed) has not been set, a lookup of the id gives a handle
\* and the handle is not alive; once the other flag has been set the lookup is
\* empty.
C3_AddressableUntilSecondFlag ==
  \A id \in Ids :
    hist[id].evt =>
      IF hist[id].s
        THEN Lookup(id).kind = "None"
        ELSE /\ Lookup(id).kind = "Some"
             /\ Lookup(id).proxy.id = id
             /\ alive[Lookup(id).proxy.id] = FALSE

\* a thread has looked the id up in the intermediate state
C3_Witness ==
  \E t \in Threads :
    /\ th[t].op = "get" /\ th[t].pc = "ret" /\ th[t].ret.kind = "Some"
    /\ th[t].ret.proxy.id = ObjectId
    /\ hist[ObjectId].evt /\ ~hist[ObjectId].s /\ ~alive[ObjectId]

\* C4: a decoded event whose minimum version is above the object's version
\* returns BadMsg without a callback; one whose minimum version is at or below
\* it has its callback invoked exactly once by the time dispatch is over.
C4_VersionGating ==
  \A t \in Threads :
    Decoded(t) =>
      IF th[t].ev.since > th[t].proxy.version
        THEN th[t].pc = "ret" /\ th[t].ret.kind = "BadMsg" /\ th[t].cb = 0
        ELSE /\ th[t].cb <= 1
             /\ th[t].pc \in {"ret", "panicked"} => th[t].cb = 1
             /\ th[t].pc = "ret" => th[t].ret.kind = "Yes"

\* an event above the object's version has been turned away, and the sink
\* has received an earlier event that passed the gate
C4_Witness ==
  \E t \in Threads :
    /\ Decoded(t) /\ th[t].ev.since > th[t].proxy.version /\ th[t].pc = "ret"
    /\ th[t].ret.kind = "BadMsg" /\ th[t].cb = 0
    /\ sinkLog # {}

\* C5: for a destructor event that decoded and passed the gate, the callback
\* is invoked once, with that event and the handle, after alive was set to
\* false and after the bookkeeping, whether or not the entry was removed.
C5_DestructorDelivered ==
  \A t \in Threads :
    (Gated(t) /\ th[t].ev.destructor) =>
      /\ th[t].cb <= 1
      /\ th[t].pc = "ret" => th[t].cb = 1
      /\ th[t].pc = "callback" => /\ th[t].booked
                                  /\ ~alive[th[t].proxy.id]
      /\ th[t].cb = 1 => /\ th[t].cbArg = [ev |-> th[t].ev, proxy |-> th[t].proxy]
                         /\ th[t].cbArg.ev = EventsTable[th[t].msg.opcode + 1]
                         /\ ~th[t].cbAlive
                         /\ th[t].booked

\* delivered although the bookkeeping removed the entry
C5_Witness ==
  \E t \in Threads :
    /\ Gated(t) /\ th[t].ev.destructor /\ th[t].pc = "ret"
    /\ th[t].cb = 1 /\ th[t].removed /\ ~Present(th[t].proxy.id)

\* the step in which thread t calls the default dispatcher
DefaultStep(t) == th[t].op # "default" /\ th'[t].op = "default"

\* C6: the default dispatcher returns NoDispatch with the very message and
\* handle it was given, invokes no callback, and leaves the registry, the
\* alive flags, the registry lock and the sink untouched.
C6_FallbackTransparent ==
  [][\A t \in Threads :
       DefaultStep(t) =>
         /\ th'[t].ret = [kind |-> "NoDispatch", msg |-> th'[t].msg,
                          proxy |-> th'[t].proxy]
         /\ th'[t].msg \in Messages /\ th'[t].proxy \in handles
         /\ th'[t].pc = "ret"
         /\ th'[t].cb = 0 /\ th'[t].sunk = 0
         /\ UNCHANGED <<map, alive, mapLock, sinkLog, hist>>
    ]_vars

\* a destructor message handed to the default dispatcher of a live object
C6_Witness ==
  \E t \in Threads :
    /\ th[t].op = "default" /\ th[t].pc = "ret"
    /\ th[t].ret.kind = "NoDispatch"
    /\ th[t].ret.msg = [opcode |-> DestructorOpcode, wellformed |-> TRUE]
    /\ th[t].ret.proxy.id = ObjectId
    /\ Present(ObjectId) /\ alive[ObjectId]

\* C7: a read of the guard on the thread that built it succeeds and gives the
\* value it was built with; a read on another thread fails its assertion and
\* gives no value.
C7_ThreadConfinement ==
  \A t \in Threads :
    th[t].cb >= 1 =>
      IF t = OriginThread
        THEN th[t].gread = [ok |-> TRUE, val |-> TheFilter] /\ th[t].pc # "panicked"
        ELSE /\ ~th[t].gread.ok
             /\ th[t].gread.val # TheFilter
             /\ th[t].pc = "panicked"

\* a read on each kind of thread
C7_Witness ==
  \E u \in Threads :
    /\ sinkLog = {OriginThread}
    /\ u # OriginThread /\ th[u].cb = 1 /\ th[u].pc = "panicked"
    /\ th[u].gread = [ok |-> FALSE, val |-> NoVal]

\* C8 as stated: a dispatch called on a thread other than the one that built
\* the dispatcher never returns to its caller (it ends in the assertion).
C8_AsStated ==
  \A t \in Threads \ {OriginThread} :
    th[t].op = "dispatch" => th[t].pc # "ret"

\* C8 (amended): a dispatch called on another thread that gets as far as the
\* callback (the message decoded and passed the version gate) ends in the
\* confinement assertion and never returns Yes; one whose message fails to
\* decode or fails the version gate returns BadMsg without reading the guard;
\* the sink is invoked on no thread but the one that built the dispatcher.
C8_ConfinedDispatch ==
  /\ sinkLog \subseteq {OriginThread}
  /\ \A t \in Threads \ {OriginThread} :
       th[t].op = "dispatch" =>
         /\ th[t].sunk = 0
         /\ th[t].pc \notin {"in_sink", "sink_done"}
         /\ th[t].cb >= 1 => th[t].pc = "panicked"
         /\ th[t].pc = "ret" => /\ th[t].ret.kind = "BadMsg"
                                /\ th[t].cb = 0
                                /\ th[t].gread = NoRead
         /\ Gated(t) => th[t].pc # "ret"

\* the assertion fired on the other thread after the bookkeeping of a
\* destructor event
C8_Witness ==
  \E t \in Threads \ {OriginThread} :
    /\ Gated(t) /\ th[t].pc = "panicked" /\ th[t].cb = 1 /\ th[t].booked

\* C9: the registry lock is held by a thread only between the bookkeeping and
\* the end of its block; it is never held by the thread whose callback or sink
\* is running, so a lookup made from inside the sink can take it.
C9_NoLockAcrossCallback ==
  /\ mapLock \in Threads \cup {NoThread}
  /\ \A t \in Threads :
       /\ mapLock = t => th[t].pc = "d_unlock"
       /\ th[t].pc \in {"callback", "in_sink", "sink_done"} => mapLock # t

\* the sink of a destructor event has looked an id up
C9_Witness ==
  \E t \in Threads :
    /\ th[t].pc = "sink_done" /\ th[t].booked /\ th[t].nested = "Some"

\* the step in which thread t does a lookup through ProxyMap::get or get_new
\* (from a caller or from inside the sink)
LookupStep(t) ==
  \/ th[t].pc = "idle" /\ th'[t].op = "get"
  \/ th[t].pc = "idle" /\ th'[t].op = "get_new"
  \/ th[t].pc = "gn_from" /\ th'[t].pc = "ret"
  \/ th[t].pc = "in_sink" /\ th'[t].pc = "sink_done"

\* C10: get and get_new on an id without an entry give nothing (and fail no
\* assertion), at the first call and at every later one, and no lookup changes
\* the registry, whether the id looked up has an entry or not.
C10_IdempotentLookup ==
  [][\A t \in Threads :
       LookupStep(t) =>
         /\ map' = map /\ alive' = alive /\ hist' = hist
         /\ ~Present(th'[t].proxy.id) =>
              /\ th'[t].pc # "panicked"
              /\ th'[t].op = "get" => th'[t].ret.kind = "None"
              /\ (th'[t].op = "get_new" /\ th'[t].pc = "ret") =>
                    th'[t].ret.kind = "None"
         /\ (th'[t].op = "dispatch" /\ \A id \in Ids : ~Present(id)) =>
              th'[t].nested = "None"
    ]_vars

\* two lookups of the same missing id, one by get and one by get_new
C10_Witness ==
  \E t, u \in Threads :
    /\ th[t].op = "get" /\ th[t].pc = "ret" /\ th[t].ret.kind = "None"
    /\ th[u].op = "get_new" /\ th[u].pc = "ret" /\ th[u].ret.kind = "None"
    /\ th[t].proxy.id = th[u].proxy.id /\ th[t].proxy.id # ObjectId

\* the step in which thread t enters ImplDispatcher::dispatch
BeginStep(t) == th[t].pc = "idle" /\ th'[t].op = "dispatch"

\* a call of ImplDispatcher::dispatch, described by the locals r of its thread,
\* that reached the decoding of line 129 and whose message did not decode
DecodeFailed(r) ==
  r.op = "dispatch" /\ r.pc # "panicked" /\ ~from_raw(r.msg).ok

\* C11: a dispatch whose message does not decode returns BadMsg at once,
\* without a callback, and no step of the call changes alive, a destroyed flag
\* or the entries of the registry, also when the opcode is a destructor's.
C11_DecodeFailure ==
  [][\A t \in Threads :
       /\ (BeginStep(t) /\ DecodeFailed(th'[t])) =>
            /\ th'[t].pc = "ret" /\ th'[t].ret.kind = "BadMsg"
            /\ th'[t].cb = 0 /\ ~th'[t].booked
            /\ UNCHANGED <<map, alive, hist, sinkLog, mapLock>>
       /\ (DecodeFailed(th[t]) /\ th'[t] # th[t]) =>
            /\ th'[t] = Idle
            /\ UNCHANGED <<map, alive, hist, sinkLog, mapLock>>
    ]_vars

\* a destructor opcode whose arguments did not decode, on a live entry
C11_Witness ==
  \E t \in Threads :
    /\ th[t].op = "dispatch" /\ th[t].pc = "ret" /\ th[t].ret.kind = "BadMsg"
    /\ th[t].msg = [opcode |-> DestructorOpcode, wellformed |-> FALSE]
    /\ Present(ObjectId) /\ alive[ObjectId]
    /\ ~map[ObjectId].client_destroyed /\ ~map[ObjectId].server_destroyed

\* C12 as stated: no message makes a dispatch on the thread that built the
\* dispatcher panic, whatever its opcode and whether tracing is on or off.
C12_AsStated ==
  th[OriginThread].op = "dispatch" => th[OriginThread].pc # "panicked"

\* thread t is in a dispatch whose bookkeeping found the entry of its id
BookedEntry(t) == th[t].op = "dispatch" /\ th[t].booked /\ th[t].found

\* C13: when a destructor event is dispatched while the other side's destroy
\* (the one that sets server_destroyed) acts on the same id, the bookkeeping
\* sees the registry as the lock froze it: it removes the entry exactly when
\* the other flag was already set; once both have acted remove has been called
\* once, never twice and never not at all.
C13_ExactlyOneRemoves ==
  /\ \A id \in Ids : hist[id].removals <= 1
  /\ \A t \in Threads :
       LET id == th[t].proxy.id IN
       BookedEntry(t) =>
         /\ th[t].pc = "d_unlock" => /\ mapLock = t
                                     /\ th[t].removed = hist[id].s
                                     /\ th[t].removed = ~Present(id)
         /\ th[t].removed => hist[id].s
         /\ hist[id].s => hist[id].removals = 1 /\ ~Present(id)

\* the other side removed the entry while the dispatch that set the first flag
\* was still under way
C13_Witness ==
  \E t \in Threads :
    /\ BookedEntry(t) /\ ~th[t].removed /\ th[t].pc = "callback"
    /\ hist[th[t].proxy.id].s /\ hist[th[t].proxy.id].removals = 1

\* C14: whenever a destructor dispatch is about to do its bookkeeping, has done
\* it, or has left a flag on or removed an entry, alive of that entry is false.
C14_AliveFalseFirst ==
  /\ \A id \in Ids : hist[id].evt => ~alive[id]
  /\ \A t \in Threads :
       (th[t].op = "dispatch" /\ (th[t].pc \in {"d_lock", "d_unlock"} \/ th[t].booked))
          => ~alive[th[t].proxy.id]

\* alive is already false while no flag has been written yet
C14_Witness ==
  \E t \in Threads :
    /\ th[t].pc = "d_lock" /\ ~alive[ObjectId] /\ th[t].proxy.id = ObjectId
    /\ Present(ObjectId) /\ ~hist[ObjectId].c /\ ~hist[ObjectId].s

\* C15 as stated: every call of dispatch ends by returning; it returns
\* Dispatched (Yes) with one callback invocation exactly when the message
\* decoded and passed the version gate, and Malformed (BadMsg) with none
\* otherwise.  Stated for the thread that created the dispatcher.
C15_AsStated ==
  LET r == th[OriginThread] IN
  (r.op = "dispatch" /\ r.pc \in {"ret", "panicked"}) =>
    /\ r.pc = "ret"
    /\ r.ret.kind = IF Gated(OriginThread) THEN "Yes" ELSE "BadMsg"
    /\ r.cb = IF Gated(OriginThread) THEN 1 ELSE 0

\* the call held by record r carries a destructor event that the object's
\* version does not allow
UngatedDestructor(r) ==
  /\ r.op = "dispatch" /\ r.pc # "panicked" /\ from_raw(r.msg).ok
  /\ from_raw(r.msg).ev.destructor
  /\ from_raw(r.msg).ev.since > r.proxy.version

\* C16: a destructor event whose minimum version is above the object's version
\* returns BadMsg at once: no callback, no bookkeeping, alive, the flags and
\* the registry as they were.
C16_GateBeforeBookkeeping ==
  [][\A t \in Threads :
       /\ (BeginStep(t) /\ UngatedDestructor(th'[t])) =>
            /\ th'[t].pc = "ret" /\ th'[t].ret.kind = "BadMsg"
            /\ th'[t].cb = 0 /\ ~th'[t].booked
            /\ UNCHANGED <<map, alive, hist, mapLock>>
       /\ (UngatedDestructor(th[t]) /\ th'[t] # th[t]) =>
            /\ th'[t] = Idle
            /\ UNCHANGED <<map, alive, hist, mapLock>>
    ]_vars

C16_Witness ==
  \E t \in Threads :
    /\ UngatedDestructor(th[t]) /\ th[t].pc = "ret" /\ th[t].ret.kind = "BadMsg"
    /\ th[t].proxy.id = ObjectId /\ Present(ObjectId) /\ alive[ObjectId]
    /\ ~map[ObjectId].client_destroyed /\ ~map[ObjectId].server_destroyed

\* C17: the bookkeeping of a destructor event for an id without an entry
\* writes no flag and removes nothing; the callback then runs once and the
\* call returns Yes (on the dispatcher's own thread nothing fails).
C17_MissingEntry ==
  /\ [][\A t \in Threads :
          (BookStep(t) /\ ~Present(th[t].proxy.id)) =>
            /\ ~th'[t].found /\ ~th'[t].removed
            /\ UNCHANGED <<map, alive, hist>>
       ]_vars
  /\ [](\A t \in Threads :
          (th[t].op = "dispatch" /\ th[t].booked /\ ~th[t].found) =>
            /\ ~th[t].removed
            /\ t = OriginThread => th[t].pc # "panicked"
            /\ th[t].pc = "ret" => th[t].ret.kind = "Yes" /\ th[t].cb = 1)

C17_Witness ==
  \E t \in Threads :
    /\ th[t].op = "dispatch" /\ th[t].booked /\ ~th[t].found
    /\ th[t].pc = "ret" /\ th[t].ret.kind = "Yes" /\ th[t].cb = 1
    /\ ~Present(th[t].proxy.id)

\* the call held by record r carries an event that is not a destructor
NonDestructor(r) ==
  r.op = "dispatch" /\ from_raw(r.msg).ok /\ ~from_raw(r.msg).ev.destructor

\* C18: alive never goes from false to true, a destroyed flag of an entry never
\* goes from true to false, and no step of a dispatch of a non-destructor
\* event changes alive, the flags or the membership of the registry.
C18_Monotonic ==
  [][/\ \A id \in Ids : ~alive[id] => ~alive'[id]
     /\ \A id \in Ids :
          (Present(id) /\ map'[id] # NoEntry) =>
            /\ map[id].client_destroyed => map'[id].client_destroyed
            /\ map[id].server_destroyed => map'[id].server_destroyed
     /\ \A t \in Threads :
          (\/ BeginStep(t) /\ NonDestructor(th'[t])
           \/ NonDestructor(th[t]) /\ th'[t] # th[t]) =>
            UNCHANGED <<map, alive, hist>>
    ]_vars

\* a non-destructor event delivered for an entry already marked: the mark and
\* the false alive are still there
C18_Witness ==
  \E t \in Threads :
    /\ NonDestructor(th[t]) /\ th[t].pc = "ret" /\ th[t].ret.kind = "Yes"
    /\ th[t].cb = 1 /\ th[t].proxy.id = ObjectId
    /\ Present(ObjectId) /\ map[ObjectId].client_destroyed /\ ~alive[ObjectId]
    /\ hist[ObjectId].evt

\* C19 as stated: a call of dispatch has emitted the trace line exactly when
\* WAYLAND_DEBUG was set, whatever the message and whether or not it decodes.
C19_AsStated ==
  \A t \in Threads :
    (th[t].op = "dispatch" /\ th[t].pc # "idle") => (th[t].traced = th[t].debug)
====
